---- MODULE Spec2Model ----
(***************************************************************************)
(* Lyrics resolution engine of src/main.py: the retrying JSON fetch        *)
(* (_get_json_with_retries), the two provider sequences (lyrics.ovh, then  *)
(* LRCLIB) and the resolver that composes their failures                   *)
(* (find_and_fetch_lyrics).                                                *)
(* The candidate selection of the two provider sequences is also run on    *)
(* its own (SpecSelect), and so is the overlay pipeline: the LRC parser    *)
(* (parse_lrc_synced_lines) followed by the cue builder                    *)
(* (_build_overlay_cues) (SpecOverlay); the builder alone is SpecBuild.    *)
(* SpecLive is the resolver under fair scheduling, SpecSynced the lookup   *)
(* of timestamped lyrics (fetch_synced_lyrics_lrc) followed by the         *)
(* builder, and SpecTracker the cue tracker of the two overlay players.    *)
(*                                                                         *)
(* Backoff is counted in tenths of a second.  An exception is a record     *)
(* [cls, status]: cls is the Python class that the except clauses test,    *)
(* status the HTTP status of an HTTPError (NoStatus when it carries no     *)
(* response).  JSON values of string fields are TLA+ strings; the three    *)
(* markers ABSENT, NULL and NUMBER stand for a missing key, JSON null and  *)
(* a JSON number.                                                          *)
(***************************************************************************)
EXTENDS Integers, Sequences, FiniteSets, TLC

VARIABLES
    phase,          \* position of the program: which provider call is running
    song_name,      \* the argument of find_and_fetch_lyrics
    attempt,        \* loop variable of _get_json_with_retries
    rstate,         \* "ready" (about to call requests.get), "inflight", "sleeping"
    last_error,     \* local last_error of _get_json_with_retries
    hist,           \* outcomes of the attempts of the running call, in order
    sleeps,         \* durations of the time.sleep calls of the running call
    reqs,           \* HTTP requests issued by the running call
    inflight,       \* HTTP requests issued and not yet answered
    nreq,           \* HTTP requests issued to each provider
    primary_error,  \* local primary_error of find_and_fetch_lyrics
    errA,           \* exception that left _find_and_fetch_lyrics_lyricsovh
    errB,           \* exception that left _find_and_fetch_lyrics_lrclib
    histA,          \* hist of the call of provider A that failed
    histB,          \* hist of the call of provider B that failed
    matched,        \* locals matched_title, matched_artist
    chosen,         \* raw provider fields of the chosen candidate
    result,         \* how the invocation ended
    candidates,     \* the candidate list a provider sequence selects from
    picked,         \* index of the candidate bound to local chosen
    outcome,        \* what the provider sequence made of the candidate list
    lrc_text,       \* argument of parse_lrc_synced_lines, as a list of lines
    raw_cues,       \* local cues of parse_lrc_synced_lines before cues.sort
    sorted_cues,    \* local cues of parse_lrc_synced_lines after cues.sort
    synced_cues,    \* result of parse_lrc_synced_lines
    lines,          \* argument lines of _build_overlay_cues
    seconds_per_line,   \* argument seconds_per_line, in milliseconds
    cues,           \* result of _build_overlay_cues; const cues of the player
    nsleep,         \* time.sleep calls made by the invocation
    lookup,         \* how the lookup of the synced lyrics ended
    player,         \* which overlay player runs: "video" or "youtube"
    now,            \* currentTime of the player, in milliseconds
    shown,          \* cue index and word index that the last tick rendered
    last_tick,      \* time and rendering of the tick before the last one
    rafId,          \* variable rafId of the YouTube player, 0 for null
    pending,        \* animation-frame requests made and not yet run or cancelled
    next_id,        \* handles that requestAnimationFrame has given out
    yt_events       \* the last two state-change events of the YouTube player

vars == <<phase, song_name, attempt, rstate, last_error, hist, sleeps, reqs,
          inflight, nreq, primary_error, errA, errB, histA, histB, matched,
          chosen, result, candidates, picked, outcome, lrc_text, raw_cues,
          sorted_cues, synced_cues, lines, seconds_per_line, cues, nsleep,
          lookup, player, now, shown, last_tick, rafId, pending, next_id,
          yt_events>>

retryVars == <<attempt, rstate, last_error, hist, sleeps, reqs>>
resolverVars == <<primary_error, errA, errB, histA, histB, matched, chosen>>
engineVars == <<song_name, attempt, rstate, last_error, hist, sleeps, reqs,
                inflight, nreq, primary_error, errA, errB, histA, histB,
                matched, chosen, result, nsleep>>
selectVars == <<candidates, picked, outcome>>
overlayVars == <<lrc_text, raw_cues, sorted_cues, synced_cues, lines,
                 seconds_per_line, cues, lookup>>
trackerVars == <<player, now, shown, last_tick, rafId, pending, next_id,
                 yt_events>>

----------------------------------------------------------------------------
(* Program constants *)

LYRICS_MAX_RETRIES == 3

\* LYRICS_BACKOFF_SECONDS = 1.2, in tenths of a second
LYRICS_BACKOFF_TENTHS == 12

\* status_code = None: an HTTPError that carries no response
NoStatus == 0
\* FALLBACK_SECONDS_PER_LINE = 2.8, in milliseconds
FALLBACK_MILLIS_PER_LINE == 2800

RetryableStatuses == {408, 429, 500, 502, 503, 504}

(* Bounds *)

\* longest candidate list a provider returns
MaxCands == 2
\* lines of an LRC text
MaxLines == 3
\* lines of plain lyrics
MaxPlain == 3
\* animation frames requested by one YouTube player
MaxFrames == 3

----------------------------------------------------------------------------
(* Exceptions *)

Exc(c, s) == [cls |-> c, status |-> s]

NoError == Exc("none", NoStatus)
OkOutcome == Exc("ok", 200)

\* requests.exceptions.Timeout (ConnectTimeout, ReadTimeout)
TimeoutExc == Exc("Timeout", NoStatus)
\* requests.exceptions.ConnectionError that is no timeout
ConnectionExc == Exc("ConnectionError", NoStatus)
\* a RequestException that is neither HTTPError, Timeout nor ConnectionError
\* (TooManyRedirects, ChunkedEncodingError, ContentDecodingError, ...)
OtherRequestExc == Exc("RequestException", NoStatus)
\* response.json() on a body that is not JSON: a ValueError in every version
\* of requests (json.JSONDecodeError), and a RequestException since 2.27
JsonDecodeExc == Exc("JSONDecodeError", NoStatus)
\* raise ValueError(...) of the provider sequences
ValueErrorExc == Exc("ValueError", NoStatus)
\* x.get / x.strip on a value that is no dict / no str; iterating a non-list
AttributeErrorExc == Exc("AttributeError", NoStatus)

HttpExc(s) == Exc("HTTPError", s)

IsTimeout(e) == e.cls = "Timeout"
IsValueError(e) == e.cls \in {"ValueError", "JSONDecodeError"}
IsRequestException(e) ==
    e.cls \in {"Timeout", "ConnectionError", "HTTPError", "RequestException",
               "JSONDecodeError"}

\* except (requests.exceptions.RequestException, ValueError)
Caught(e) == IsRequestException(e) \/ IsValueError(e)

----------------------------------------------------------------------------
(* _get_json_with_retries *)

\* variant: every 5xx status is taken to be transient
RetryableAny5xx(status) == status \in {408, 429} \/ status >= 500

\* retryable = status_code in {408, 429, 500, 502, 503, 504}
Retryable(status) == status \in RetryableStatuses

\* variant: the loop bound is off by one, a fourth attempt is made
WillRetryOffByOne(e, att) ==
    IF e.cls = "HTTPError"
    THEN att <= LYRICS_MAX_RETRIES /\ Retryable(e.status)
    ELSE IF e.cls \in {"Timeout", "ConnectionError"}
    THEN att <= LYRICS_MAX_RETRIES
    ELSE FALSE

\* variant: ConnectionError is missing from the second except clause
WillRetryTimeoutOnly(e, att) ==
    IF e.cls = "HTTPError"
    THEN att < LYRICS_MAX_RETRIES /\ Retryable(e.status)
    ELSE IF e.cls = "Timeout"
    THEN att < LYRICS_MAX_RETRIES
    ELSE FALSE

\* the except clauses of the loop: TRUE when the attempt is followed by a
\* sleep and another attempt, FALSE when the exception is raised
WillRetry(e, att) ==
    IF e.cls = "HTTPError"
    THEN att < LYRICS_MAX_RETRIES /\ Retryable(e.status)
    ELSE IF e.cls \in {"Timeout", "ConnectionError"}
    THEN att < LYRICS_MAX_RETRIES
    ELSE FALSE

\* variant: the delay is not scaled by the attempt number
BackoffConstant(att) == LYRICS_BACKOFF_TENTHS

\* time.sleep(LYRICS_BACKOFF_SECONDS * attempt)
\* (the statements after the loop, lines 163-165, are never reached: the
\* third attempt returns or raises)
Backoff(att) == LYRICS_BACKOFF_TENTHS * att

----------------------------------------------------------------------------
(* JSON field values and the Python string operations applied to them *)

ABSENT == "<absent>"
NULL == "<null>"
NUMBER == "<number>"

\* d.get(key, default)
Get(v, default) == IF v = ABSENT THEN default ELSE v

\* d.get(key): None when the key is missing
GetOrNone(v) == Get(v, NULL)

\* str(x): str(None) is "None", str(7) is "7", a string is itself
PyStr(v) == IF v = NULL THEN "None" ELSE IF v = NUMBER THEN "7" ELSE v

\* bool(x) of None, a string or the number 7
Truthy(v) == v \notin {NULL, ""}

\* s.strip() on the strings of the model
Strip(s) ==
    CASE s = " " -> ""
      [] s = " Bar " -> "Bar"
      [] s = " la la " -> "la la"
      [] OTHER -> s

\* s.lower() on the strings of the model
Lower(s) ==
    CASE s = "Bar" -> "bar"
      [] s = "Foo" -> "foo"
      [] s = "None" -> "none"
      [] s = "Abba" -> "abba"
      [] s = " Bar " -> " bar "
      [] OTHER -> s

\* str(d.get(key, "")).strip()
StrField(v) == Strip(PyStr(Get(v, "")))

----------------------------------------------------------------------------
(* Provider A (lyrics.ovh): search, selection, fetch *)

NoCand == [title |-> ABSENT, name |-> ABSENT, lyrics |-> ABSENT, field |-> "none"]
NoMatch == [title |-> "", artist |-> ""]

\* payload.get("data", []) if isinstance(payload, dict) else []
SearchSongCandidates(payload) ==
    IF payload.obj /\ payload.data # "absent"
    THEN [kind |-> payload.data, items |-> payload.items]
    ELSE [kind |-> "list", items |-> <<>>]

\* not candidates
Falsy(c) == c.kind = "null" \/ (c.kind = "list" /\ c.items = <<>>)

\* the for loop over the candidates: the index of the first candidate whose
\* title equals the target, 0 when the loop ends without a break, -1 when
\* candidate.get fails on an entry that is no dict
RECURSIVE ScanOvh(_, _, _)
ScanOvh(cands, target, i) ==
    IF i > Len(cands) THEN 0
    ELSE IF ~cands[i].obj THEN -1
    ELSE IF Lower(StrField(cands[i].title)) = target THEN i
    ELSE ScanOvh(cands, target, i + 1)

\* the selection of chosen: the index of the first candidate whose title
\* equals the trimmed, lowercased song name, 1 (candidates[0]) when the loop
\* ends with chosen = None, -1 when the loop fails
PickOvh(cands, song) ==
    LET idx == ScanOvh(cands, Lower(Strip(song)), 1)
    IN  IF idx = 0 THEN 1 ELSE idx

\* chosen.get("artist") if isinstance(chosen.get("artist"), dict) else {}
ArtistObj(cand) == IF cand.artist.obj THEN cand.artist.name ELSE ABSENT

\* _find_and_fetch_lyrics_lyricsovh from the search payload to the call of
\* _fetch_lyrics: exc is the exception raised, NoError when lyrics are fetched
OvhSelect(payload, song) ==
    LET cs == SearchSongCandidates(payload)
        fail(e) == [exc |-> e, match |-> NoMatch, cand |-> NoCand]
    IN  IF Falsy(cs) THEN fail(ValueErrorExc)
        ELSE IF cs.kind # "list" THEN fail(AttributeErrorExc)
        ELSE LET idx == PickOvh(cs.items, song)
             IN  IF idx = -1 THEN fail(AttributeErrorExc)
                 ELSE LET ch == cs.items[idx]
                          mt == StrField(ch.title)
                          ma == StrField(ArtistObj(ch))
                      IN  IF mt = "" \/ ma = "" THEN fail(ValueErrorExc)
                          ELSE [exc |-> NoError,
                                match |-> [title |-> mt, artist |-> ma],
                                cand |-> [title |-> ch.title,
                                          name |-> ArtistObj(ch),
                                          lyrics |-> ABSENT,
                                          field |-> "none"]]

\* _fetch_lyrics on a decoded payload and the check that follows it
OvhLyrics(payload) ==
    LET raw == IF payload.obj THEN GetOrNone(payload.lyrics) ELSE NULL
    IN  IF ~Truthy(raw) THEN [exc |-> ValueErrorExc, lyrics |-> "", raw |-> raw]
        ELSE IF raw = NUMBER
        THEN [exc |-> AttributeErrorExc, lyrics |-> "", raw |-> raw]
        ELSE IF Strip(raw) = ""
        THEN [exc |-> ValueErrorExc, lyrics |-> "", raw |-> raw]
        ELSE [exc |-> NoError, lyrics |-> Strip(raw), raw |-> raw]

----------------------------------------------------------------------------
(* Provider B (LRCLIB): search, selection, lyrics field *)

RECURSIVE ScanLrclib(_, _, _)
ScanLrclib(items, target, i) ==
    IF i > Len(items) THEN 0
    ELSE IF ~items[i].obj THEN -1
    ELSE IF Lower(StrField(items[i].trackName)) = target THEN i
    ELSE ScanLrclib(items, target, i + 1)

\* the selection of chosen among the items of LRCLIB, as PickOvh
PickLrclib(items, song) ==
    LET idx == ScanLrclib(items, Lower(Strip(song)), 1)
    IN  IF idx = 0 THEN 1 ELSE idx

\* _find_and_fetch_lyrics_lrclib on a decoded payload
LrclibResolve(payload, song) ==
    LET fail(e) == [exc |-> e, lyrics |-> "", match |-> NoMatch, cand |-> NoCand]
    IN  IF ~payload.list \/ payload.items = <<>> THEN fail(ValueErrorExc)
        ELSE LET idx == PickLrclib(payload.items, song)
             IN  IF idx = -1 THEN fail(AttributeErrorExc)
                 ELSE LET ch == payload.items[idx]
                          mt == StrField(ch.trackName)
                          ma == StrField(ch.artistName)
                          plain == StrField(ch.plainLyrics)
                          synced == StrField(ch.syncedLyrics)
                          lyrics == IF plain # "" THEN plain ELSE synced
                      IN  IF mt = "" \/ ma = "" THEN fail(ValueErrorExc)
                          ELSE IF lyrics = "" THEN fail(ValueErrorExc)
                          ELSE [exc |-> NoError,
                                lyrics |-> lyrics,
                                match |-> [title |-> mt, artist |-> ma],
                                cand |-> [title |-> ch.trackName,
                                          name |-> ch.artistName,
                                          lyrics |-> IF plain # ""
                                                     THEN ch.plainLyrics
                                                     ELSE ch.syncedLyrics,
                                          field |-> IF plain # ""
                                                    THEN "plainLyrics"
                                                    ELSE "syncedLyrics"]]

----------------------------------------------------------------------------
(* find_and_fetch_lyrics: composition of the two failures *)

\* variant: one timeout is enough for the surfaced error to be a timeout
ComposeEitherTimeout(primary, fallback) ==
    IF IsTimeout(primary) \/ IsTimeout(fallback) THEN TimeoutExc
    ELSE IF IsValueError(primary) /\ IsValueError(fallback) THEN ValueErrorExc
    ELSE OtherRequestExc

\* the class raised by the except clause of the fallback attempt
Compose(primary, fallback) ==
    IF IsTimeout(primary) /\ IsTimeout(fallback) THEN TimeoutExc
    ELSE IF IsValueError(primary) /\ IsValueError(fallback) THEN ValueErrorExc
    ELSE OtherRequestExc

----------------------------------------------------------------------------
(* Inputs: what the network and the providers may answer *)

\* statuses an HTTPError carries in a single call of _get_json_with_retries
FetchStatuses == RetryableStatuses \cup {400, 404, 501, NoStatus}

\* statuses an HTTPError carries during a resolution
ResolverStatuses == {503, 404}

\* what requests.get, raise_for_status and response.json() may raise
Failures(statuses) ==
    {TimeoutExc, ConnectionExc, OtherRequestExc, JsonDecodeExc}
        \cup {HttpExc(s) : s \in statuses}

SeqsUpTo(S, n) == UNION {[1..k -> S] : k \in 0..n}

Queries == {"bar", "Foo"}
\* song names given to a provider sequence on its own
SelectQueries == Queries \cup {"None"}

Titles == {ABSENT, NULL, " ", "Foo", " Bar "}
Names == {ABSENT, NULL, " ", "Abba"}

OvhCand(t, isObj, n) ==
    [obj |-> TRUE, title |-> t, artist |-> [obj |-> isObj, name |-> n]]

\* a candidate entry that is no JSON object (null, a string, a number)
OvhNonObject ==
    [obj |-> FALSE, title |-> ABSENT, artist |-> [obj |-> FALSE, name |-> ABSENT]]

OvhCands ==
    {OvhCand(t, TRUE, n) : t \in Titles, n \in Names}
        \cup {OvhCand(t, FALSE, ABSENT) : t \in Titles}
        \cup {OvhNonObject}

OvhSearchPayloads ==
    {[obj |-> FALSE, data |-> "absent", items |-> <<>>]}
        \cup {[obj |-> TRUE, data |-> d, items |-> <<>>] :
                 d \in {"absent", "null", "string"}}
        \cup {[obj |-> TRUE, data |-> "list", items |-> cs] :
                 cs \in SeqsUpTo(OvhCands, MaxCands)}

OvhLyricsPayloads ==
    {[obj |-> FALSE, lyrics |-> ABSENT]}
        \cup {[obj |-> TRUE, lyrics |-> l] :
                 l \in {ABSENT, NULL, "", " ", " la la ", NUMBER}}

LrclibItem(t, a, pl, sy) ==
    [obj |-> TRUE, trackName |-> t, artistName |-> a,
     plainLyrics |-> pl, syncedLyrics |-> sy]

LrclibNonObject ==
    [obj |-> FALSE, trackName |-> ABSENT, artistName |-> ABSENT,
     plainLyrics |-> ABSENT, syncedLyrics |-> ABSENT]

PlainValues == {ABSENT, NULL, " ", " la la "}
SyncedValues == {ABSENT, NULL, "[00:01.00]la"}

\* one field group varies at a time, the others being populated
LrclibItems ==
    {LrclibItem(t, "Abba", " la la ", ABSENT) : t \in Titles}
        \cup {LrclibItem(" Bar ", a, " la la ", ABSENT) : a \in {ABSENT, NULL}}
        \cup {LrclibItem(" Bar ", "Abba", pl, sy) :
                 pl \in PlainValues, sy \in SyncedValues}
        \cup {LrclibNonObject}

LrclibPayloads ==
    {[list |-> FALSE, items |-> <<>>]}
        \cup {[list |-> TRUE, items |-> is] : is \in SeqsUpTo(LrclibItems, MaxCands)}

\* what each provider sequence makes of the payloads the provider may answer
OvhSearchOutcomes ==
    [q \in Queries |-> {OvhSelect(p, q) : p \in OvhSearchPayloads}]
OvhLyricsOutcomes == {OvhLyrics(p) : p \in OvhLyricsPayloads}
LrclibOutcomes ==
    [q \in Queries |-> {LrclibResolve(p, q) : p \in LrclibPayloads}]

----------------------------------------------------------------------------
(* State machine *)

NoResult ==
    [kind |-> "none", exc |-> NoError, lyrics |-> "", title |-> "", artist |-> ""]
Returned(l, t, a) ==
    [kind |-> "return", exc |-> NoError, lyrics |-> l, title |-> t, artist |-> a]
Raised(e) ==
    [kind |-> "raise", exc |-> e, lyrics |-> "", title |-> "", artist |-> ""]

Calls == {"single", "A_search", "A_fetch", "B_search"}

Provider(ph) == IF ph = "B_search" THEN "B" ELSE "A"

NoOutcome ==
    [exc |-> NoError, lyrics |-> "", match |-> NoMatch, cand |-> NoCand]

\* the lookup of the synced lyrics has not been made
NoLookup == [kind |-> "none", exc |-> NoError]

\* nothing rendered yet; no tick yet
NoRender == [idx |-> -1, word |-> -1]
NoTick == [t |-> -1, idx |-> -1, word |-> -1]

\* no candidate list is being selected from
SelectIdle ==
    /\ candidates = <<>>
    /\ picked = 0
    /\ outcome = NoOutcome

\* no overlay is being built
OverlayIdle ==
    /\ lrc_text = <<>>
    /\ raw_cues = <<>>
    /\ sorted_cues = <<>>
    /\ synced_cues = <<>>
    /\ lines = <<>>
    /\ seconds_per_line = FALLBACK_MILLIS_PER_LINE
    /\ cues = <<>>
    /\ lookup = NoLookup

\* no overlay player runs
TrackerIdle ==
    /\ player = "none"
    /\ now = 0
    /\ shown = NoRender
    /\ last_tick = NoTick
    /\ rafId = 0
    /\ pending = {}
    /\ next_id = 0
    /\ yt_events = <<>>

Init ==
    /\ phase = "A_search"
    /\ song_name \in Queries
    /\ attempt = 1
    /\ rstate = "ready"
    /\ last_error = NoError
    /\ hist = <<>>
    /\ sleeps = <<>>
    /\ reqs = 0
    /\ inflight = 0
    /\ nreq = [A |-> 0, B |-> 0]
    /\ primary_error = NoError
    /\ errA = NoError
    /\ errB = NoError
    /\ histA = <<>>
    /\ histB = <<>>
    /\ matched = NoMatch
    /\ chosen = NoCand
    /\ result = NoResult
    /\ nsleep = 0
    /\ SelectIdle
    /\ OverlayIdle
    /\ TrackerIdle

\* one call of _get_json_with_retries on its own
InitFetch ==
    /\ phase = "single"
    /\ song_name = "bar"
    /\ attempt = 1
    /\ rstate = "ready"
    /\ last_error = NoError
    /\ hist = <<>>
    /\ sleeps = <<>>
    /\ reqs = 0
    /\ inflight = 0
    /\ nreq = [A |-> 0, B |-> 0]
    /\ primary_error = NoError
    /\ errA = NoError
    /\ errB = NoError
    /\ histA = <<>>
    /\ histB = <<>>
    /\ matched = NoMatch
    /\ chosen = NoCand
    /\ result = NoResult
    /\ nsleep = 0
    /\ SelectIdle
    /\ OverlayIdle
    /\ TrackerIdle

\* entry of _get_json_with_retries for the next call of the sequence
StartCall(ph) ==
    /\ phase' = ph
    /\ attempt' = 1
    /\ rstate' = "ready"
    /\ last_error' = NoError
    /\ hist' = <<>>
    /\ sleeps' = <<>>
    /\ reqs' = 0

\* the invocation ends: h is the history of its last call
Finish(res, h, le) ==
    /\ phase' = "done"
    /\ rstate' = "idle"
    /\ result' = res
    /\ hist' = h
    /\ last_error' = le
    /\ UNCHANGED <<attempt, sleeps, reqs>>

\* variant: the result of provider A is not returned and control falls
\* through to the fallback attempt
ReturnPrimaryFallsThrough(res, h) ==
    /\ StartCall("B_search")
    /\ UNCHANGED <<result, primary_error, errA, errB, histA, histB>>

\* find_and_fetch_lyrics after provider A returned its result
ReturnPrimary(res, h) ==
    /\ Finish(res, h, last_error)
    /\ UNCHANGED <<primary_error, errA, errB, histA, histB>>

\* exception e leaves the running call, whose history is h: the try/except
\* blocks of find_and_fetch_lyrics
RaiseFrom(e, h, le) ==
    CASE phase = "single" ->
            /\ Finish(Raised(e), h, le)
            /\ UNCHANGED resolverVars
      [] phase \in {"A_search", "A_fetch"} ->
            /\ errA' = e
            /\ histA' = h
            /\ matched' = NoMatch
            /\ chosen' = NoCand
            /\ UNCHANGED <<errB, histB>>
            /\ IF Caught(e)
               THEN /\ primary_error' = e
                    /\ StartCall("B_search")
                    /\ UNCHANGED result
               ELSE /\ Finish(Raised(e), h, le)
                    /\ UNCHANGED primary_error
      [] phase = "B_search" ->
            /\ errB' = e
            /\ histB' = h
            /\ Finish(Raised(IF Caught(e) THEN Compose(primary_error, e) ELSE e),
                      h, le)
            /\ UNCHANGED <<primary_error, errA, histA, matched, chosen>>

\* response = requests.get(url, timeout=timeout_seconds): the request leaves
SendRequest ==
    /\ phase \in Calls
    /\ UNCHANGED <<selectVars, overlayVars, trackerVars>>
    /\ rstate = "ready"
    /\ rstate' = "inflight"
    /\ reqs' = reqs + 1
    /\ inflight' = inflight + 1
    /\ nreq' = IF phase = "single" THEN nreq
               ELSE [nreq EXCEPT ![Provider(phase)] = @ + 1]
    /\ UNCHANGED <<phase, song_name, attempt, last_error, hist, sleeps, result,
                   nsleep>>
    /\ UNCHANGED resolverVars

\* the attempt raises e: the except clauses of the retry loop
AttemptFails(e) ==
    /\ phase \in Calls
    /\ UNCHANGED <<selectVars, overlayVars, trackerVars>>
    /\ rstate = "inflight"
    /\ inflight' = inflight - 1
    /\ UNCHANGED <<song_name, nreq>>
    /\ IF WillRetry(e, attempt)
       THEN /\ rstate' = "sleeping"
            /\ last_error' = e
            /\ hist' = Append(hist, e)
            /\ sleeps' = Append(sleeps, Backoff(attempt))
            /\ nsleep' = nsleep + 1
            /\ UNCHANGED <<phase, attempt, reqs, result>>
            /\ UNCHANGED resolverVars
       ELSE /\ RaiseFrom(e, Append(hist, e),
                         IF e.cls \in {"HTTPError", "Timeout", "ConnectionError"}
                         THEN e ELSE last_error)
            /\ UNCHANGED nsleep

\* time.sleep returns; continue
WakeUp ==
    /\ phase \in Calls
    /\ UNCHANGED <<selectVars, overlayVars, trackerVars>>
    /\ rstate = "sleeping"
    /\ rstate' = "ready"
    /\ attempt' = attempt + 1
    /\ UNCHANGED <<phase, song_name, last_error, hist, sleeps, reqs, inflight,
                   nreq, result, nsleep>>
    /\ UNCHANGED resolverVars

\* return response.json() of a call made on its own
RespondSingle ==
    /\ phase = "single"
    /\ UNCHANGED <<selectVars, overlayVars, trackerVars>>
    /\ rstate = "inflight"
    /\ inflight' = inflight - 1
    /\ Finish(Returned("", "", ""), Append(hist, OkOutcome), last_error)
    /\ UNCHANGED <<song_name, nreq, nsleep>>
    /\ UNCHANGED resolverVars

\* the search of provider A answers a payload on which the selection gives r
RespondOvhSearch(r) ==
    /\ phase = "A_search"
    /\ UNCHANGED <<selectVars, overlayVars, trackerVars>>
    /\ rstate = "inflight"
    /\ inflight' = inflight - 1
    /\ UNCHANGED <<song_name, nreq, nsleep>>
    /\ IF r.exc = NoError
       THEN /\ matched' = r.match
            /\ chosen' = r.cand
            /\ StartCall("A_fetch")
            /\ UNCHANGED <<primary_error, errA, errB, histA, histB, result>>
       ELSE RaiseFrom(r.exc, Append(hist, OkOutcome), last_error)

\* the lyrics endpoint of provider A answers a payload on which _fetch_lyrics
\* gives r
RespondOvhLyrics(r) ==
    /\ phase = "A_fetch"
    /\ UNCHANGED <<selectVars, overlayVars, trackerVars>>
    /\ rstate = "inflight"
    /\ inflight' = inflight - 1
    /\ UNCHANGED <<song_name, nreq, nsleep>>
    /\ IF r.exc = NoError
       THEN /\ ReturnPrimary(Returned(r.lyrics, matched.title, matched.artist),
                             Append(hist, OkOutcome))
            /\ chosen' = [chosen EXCEPT !.lyrics = r.raw, !.field = "lyrics"]
            /\ UNCHANGED matched
       ELSE RaiseFrom(r.exc, Append(hist, OkOutcome), last_error)

\* the search of provider B answers a payload on which the sequence gives r
RespondLrclib(r) ==
    /\ phase = "B_search"
    /\ UNCHANGED <<selectVars, overlayVars, trackerVars>>
    /\ rstate = "inflight"
    /\ inflight' = inflight - 1
    /\ UNCHANGED <<song_name, nreq, nsleep>>
    /\ IF r.exc = NoError
       THEN /\ Finish(Returned(r.lyrics, r.match.title, r.match.artist),
                      Append(hist, OkOutcome), last_error)
            /\ matched' = r.match
            /\ chosen' = r.cand
            /\ UNCHANGED <<primary_error, errA, errB, histA, histB>>
       ELSE RaiseFrom(r.exc, Append(hist, OkOutcome), last_error)

Next ==
    \/ SendRequest
    \/ WakeUp
    \/ \E e \in Failures(ResolverStatuses) : AttemptFails(e)
    \/ \E r \in OvhSearchOutcomes[song_name] : RespondOvhSearch(r)
    \/ \E r \in OvhLyricsOutcomes : RespondOvhLyrics(r)
    \/ \E r \in LrclibOutcomes[song_name] : RespondLrclib(r)

Spec == Init /\ [][Next]_vars

\* find_and_fetch_lyrics under the scheduling of the interpreter: requests.get
\* returns or raises (timeout=LYRICS_TIMEOUT_SECONDS), time.sleep returns, and
\* the statement that follows runs
SpecLive == Init /\ [][Next]_vars /\ WF_vars(Next)

NextFetch ==
    \/ SendRequest
    \/ WakeUp
    \/ \E e \in Failures(FetchStatuses) : AttemptFails(e)
    \/ RespondSingle

SpecFetch == InitFetch /\ [][NextFetch]_vars

----------------------------------------------------------------------------
(* The two provider sequences on a decoded, non-empty candidate list *)

NonEmptySeqs(S, n) == SeqsUpTo(S, n) \ {<<>>}

\* the engine is not running
EngineIdle ==
    /\ attempt = 1
    /\ rstate = "idle"
    /\ last_error = NoError
    /\ hist = <<>>
    /\ sleeps = <<>>
    /\ reqs = 0
    /\ inflight = 0
    /\ nreq = [A |-> 0, B |-> 0]
    /\ primary_error = NoError
    /\ errA = NoError
    /\ errB = NoError
    /\ histA = <<>>
    /\ histB = <<>>
    /\ matched = NoMatch
    /\ chosen = NoCand
    /\ result = NoResult
    /\ nsleep = 0

InitSelect ==
    /\ phase \in {"A_select", "B_select"}
    /\ song_name \in SelectQueries
    /\ candidates \in IF phase = "A_select"
                      THEN NonEmptySeqs(OvhCands, MaxCands)
                      ELSE NonEmptySeqs(LrclibItems, MaxCands)
    /\ picked = 0
    /\ outcome = NoOutcome
    /\ EngineIdle
    /\ OverlayIdle
    /\ TrackerIdle

\* _find_and_fetch_lyrics_lyricsovh on the candidates of the search, up to
\* the call of _fetch_lyrics
SelectOvh ==
    /\ phase = "A_select"
    /\ phase' = "A_selected"
    /\ picked' = PickOvh(candidates, song_name)
    /\ outcome' =
          LET r == OvhSelect([obj |-> TRUE, data |-> "list",
                              items |-> candidates], song_name)
          IN  [exc |-> r.exc, lyrics |-> "", match |-> r.match, cand |-> r.cand]
    /\ UNCHANGED <<candidates, engineVars, overlayVars, trackerVars>>

\* _find_and_fetch_lyrics_lrclib on the items of the search
SelectLrclib ==
    /\ phase = "B_select"
    /\ phase' = "B_selected"
    /\ picked' = PickLrclib(candidates, song_name)
    /\ outcome' = LrclibResolve([list |-> TRUE, items |-> candidates], song_name)
    /\ UNCHANGED <<candidates, engineVars, overlayVars, trackerVars>>

NextSelect ==
    \/ SelectOvh
    \/ SelectLrclib

SpecSelect == InitSelect /\ [][NextSelect]_vars

----------------------------------------------------------------------------
(* parse_lrc_synced_lines.  A line of LRC text is a sequence of tokens: a   *)
(* bracketed tag "[mm:ss.fff]" with its digit strings, a run of text, or a  *)
(* run of whitespace.  Times are whole milliseconds: total_seconds and the  *)
(* times that round(x, 3) writes into a cue are the decimals with three     *)
(* fractional digits that these integers count.                            *)

Tag(mm, ss, frac) ==
    [kind |-> "tag", mm |-> mm, ss |-> ss, frac |-> frac, s |-> ""]
Txt(s) == [kind |-> "text", mm |-> <<>>, ss |-> <<>>, frac |-> <<>>, s |-> s]
Space == [kind |-> "space", mm |-> <<>>, ss |-> <<>>, frac |-> <<>>, s |-> " "]

\* ts_pattern: \[(\d{1,2}):(\d{2})(?:\.(\d{1,3}))?\]
TsPattern(tok) ==
    /\ tok.kind = "tag"
    /\ Len(tok.mm) \in 1..2
    /\ Len(tok.ss) = 2
    /\ Len(tok.frac) \in 0..3

RECURSIVE LStrip(_)
LStrip(l) ==
    IF l # <<>> /\ Head(l).kind = "space" THEN LStrip(Tail(l)) ELSE l

RECURSIVE RStrip(_)
RStrip(l) ==
    IF l # <<>> /\ l[Len(l)].kind = "space"
    THEN RStrip(SubSeq(l, 1, Len(l) - 1))
    ELSE l

\* str.strip() on a line or on a part of a line
StripTokens(l) == RStrip(LStrip(l))

\* the repetitions of group 1 of line_pattern: how many tags the line
\* starts with, counted from token i
RECURSIVE LeadingTags(_, _)
LeadingTags(line, i) ==
    IF i <= Len(line) /\ TsPattern(line[i])
    THEN 1 + LeadingTags(line, i + 1)
    ELSE 0

\* int() of a string of decimal digits
RECURSIVE IntOf(_)
IntOf(digits) ==
    IF digits = <<>> THEN 0
    ELSE 10 * IntOf(SubSeq(digits, 1, Len(digits) - 1)) + digits[Len(digits)]

\* variant: the fraction is read as a count of milliseconds
MillisUnpadded(frac) == IntOf(frac)

\* millis = int((fraction + "000")[:3]), fraction = ts.group(3) or "0"
Millis(frac) ==
    IntOf(SubSeq((IF frac = <<>> THEN <<0>> ELSE frac) \o <<0, 0, 0>>, 1, 3))

\* total_seconds of a timestamp, in milliseconds
TotalMillis(tag) ==
    ((IntOf(tag.mm) * 60) + IntOf(tag.ss)) * 1000 + Millis(tag.frac)

\* variant: a line gives a cue for its first tag only
CuesOfLineFirstTag(raw_line) ==
    LET line == StripTokens(raw_line)
        k == LeadingTags(line, 1)
        lyric_text == StripTokens(SubSeq(line, k + 1, Len(line)))
    IN  IF line = <<>> \/ k = 0 \/ lyric_text = <<>>
        THEN <<>>
        ELSE <<[time |-> TotalMillis(line[1]), text |-> lyric_text]>>

\* the body of the loop over the lines: the cues that one line appends
CuesOfLine(raw_line) ==
    LET line == StripTokens(raw_line)
        k == LeadingTags(line, 1)
        lyric_text == StripTokens(SubSeq(line, k + 1, Len(line)))
        tags == SelectSeq(line, TsPattern)
    IN  IF line = <<>> \/ k = 0 \/ lyric_text = <<>>
        THEN <<>>
        ELSE [i \in 1..Len(tags) |->
                 [time |-> TotalMillis(tags[i]), text |-> lyric_text]]

\* cues after the loop over the lines
RECURSIVE CollectCues(_)
CollectCues(text) ==
    IF text = <<>> THEN <<>>
    ELSE CollectCues(SubSeq(text, 1, Len(text) - 1)) \o CuesOfLine(text[Len(text)])

\* variant: the cue is put at the end, whatever its time
InsertCueAtEnd(sorted, c) == Append(sorted, c)

\* cues.sort(key=lambda x: x[0]): a stable sort on the time alone
RECURSIVE InsertCue(_, _)
InsertCue(sorted, c) ==
    IF sorted = <<>> THEN <<c>>
    ELSE IF Head(sorted).time <= c.time
    THEN <<Head(sorted)>> \o InsertCue(Tail(sorted), c)
    ELSE <<c>> \o sorted

RECURSIVE SortCues(_)
SortCues(cs) ==
    IF cs = <<>> THEN <<>>
    ELSE InsertCue(SortCues(SubSeq(cs, 1, Len(cs) - 1)), cs[Len(cs)])

\* variant: a cue is dropped when its time equals the time before it
RECURSIVE DedupeByTime(_, _)
DedupeByTime(cs, i) ==
    IF i > Len(cs) THEN <<>>
    ELSE (IF i > 1 /\ cs[i].time = cs[i - 1].time THEN <<>> ELSE <<cs[i]>>)
             \o DedupeByTime(cs, i + 1)

\* the deduplication loop: a cue is kept unless it equals the cue before it
RECURSIVE Dedupe(_, _)
Dedupe(cs, i) ==
    IF i > Len(cs) THEN <<>>
    ELSE (IF i > 1 /\ cs[i] = cs[i - 1] THEN <<>> ELSE <<cs[i]>>)
             \o Dedupe(cs, i + 1)

\* parse_lrc_synced_lines, with the values of its local cues
ParseLrcSyncedLines(text) ==
    IF text = <<>>
    THEN [raw |-> <<>>, sorted |-> <<>>, deduped |-> <<>>]
    ELSE LET raw == CollectCues(text)
             sorted == SortCues(raw)
         IN  [raw |-> raw, sorted |-> sorted, deduped |-> Dedupe(sorted, 1)]

----------------------------------------------------------------------------
(* _build_overlay_cues *)

\* 0.15, 0.05 and 2.0 seconds, in milliseconds
MIN_WINDOW_MILLIS == 150
GAP_MILLIS == 50
LAST_WINDOW_MILLIS == 2000

Max(a, b) == IF a >= b THEN a ELSE b

\* variant: a cue ends 50 ms before the next one, however close that is
SyncedOverlayCuesGapFirst(spl, synced) ==
    [i \in 1..Len(synced) |->
        [start |-> synced[i].time,
         end |-> IF i < Len(synced)
                 THEN synced[i + 1].time - GAP_MILLIS
                 ELSE synced[i].time + Max(LAST_WINDOW_MILLIS, spl),
         text |-> synced[i].text]]

\* variant: every cue but the last lasts 150 ms
SyncedOverlayCuesMinWindow(spl, synced) ==
    [i \in 1..Len(synced) |->
        [start |-> synced[i].time,
         end |-> IF i < Len(synced)
                 THEN synced[i].time + MIN_WINDOW_MILLIS
                 ELSE synced[i].time + Max(LAST_WINDOW_MILLIS, spl),
         text |-> synced[i].text]]

\* the branch taken when synced_cues is not empty
SyncedOverlayCues(spl, synced) ==
    [i \in 1..Len(synced) |->
        [start |-> synced[i].time,
         end |-> IF i < Len(synced)
                 THEN Max(synced[i].time + MIN_WINDOW_MILLIS,
                          synced[i + 1].time - GAP_MILLIS)
                 ELSE synced[i].time + Max(LAST_WINDOW_MILLIS, spl),
         text |-> synced[i].text]]

\* variant: the first line starts one interval late
FixedOverlayCuesLate(ls, spl) ==
    [i \in 1..Len(ls) |->
        [start |-> i * spl, end |-> (i + 1) * spl, text |-> ls[i]]]

\* the loop over the lines: line i (from 0) spans i * spl to (i + 1) * spl
FixedOverlayCues(ls, spl) ==
    [i \in 1..Len(ls) |->
        [start |-> (i - 1) * spl, end |-> i * spl, text |-> ls[i]]]

\* variant: the cues of the lines follow the cues of the synced lyrics
BuildOverlayCuesBoth(ls, spl, synced) ==
    SyncedOverlayCues(spl, synced) \o FixedOverlayCues(ls, spl)

BuildOverlayCues(ls, spl, synced) ==
    IF synced # <<>> THEN SyncedOverlayCues(spl, synced)
    ELSE FixedOverlayCues(ls, spl)

----------------------------------------------------------------------------
(* The overlay pipeline: synced lyrics are parsed, then the cues are built *)

\* lines of LRC text
LrcLines ==
    {<<Tag(<<0, 0>>, <<0, 1>>, <<>>), Txt("hello")>>,
     <<Tag(<<0, 0>>, <<0, 1>>, <<>>), Txt("world")>>,
     <<Tag(<<0, 0>>, <<0, 1>>, <<5, 0>>), Txt("hello")>>,
     <<Tag(<<0, 0>>, <<0, 3>>, <<0, 0>>), Txt("world")>>,
     <<Tag(<<0, 0>>, <<0, 1>>, <<1>>), Tag(<<1>>, <<0, 2>>, <<1, 2, 3>>),
       Txt("hello")>>,
     <<Space, Tag(<<0, 0>>, <<0, 1>>, <<1, 8>>), Space, Txt("world"), Space>>,
     <<Tag(<<0, 0>>, <<0, 1>>, <<5>>), Txt("la"),
       Tag(<<0, 0>>, <<0, 1>>, <<1, 2>>)>>,
     <<Txt("hello")>>,
     <<Tag(<<0, 0>>, <<0, 3>>, <<>>)>>,
     <<Space>>,
     <<Txt("hello"), Tag(<<0, 0>>, <<0, 1>>, <<>>)>>,
     <<Tag(<<0>>, <<1>>, <<>>), Txt("hello")>>}

LrcTexts == SeqsUpTo(LrcLines, MaxLines)

\* the first n lines of plain lyrics, as normalize_lyrics_lines returns them
PlainLines(n) ==
    [i \in 1..n |-> IF i % 2 = 1 THEN <<Txt("hello")>> ELSE <<Txt("world")>>]

\* values of seconds_per_line, in milliseconds
LineMillis == {1500, FALLBACK_MILLIS_PER_LINE}

InitOverlay ==
    /\ phase = "parse"
    /\ song_name = "bar"
    /\ lrc_text \in LrcTexts
    /\ lines \in {PlainLines(n) : n \in 1..MaxPlain}
    /\ seconds_per_line \in LineMillis
    /\ raw_cues = <<>>
    /\ sorted_cues = <<>>
    /\ synced_cues = <<>>
    /\ cues = <<>>
    /\ lookup = NoLookup
    /\ EngineIdle
    /\ SelectIdle
    /\ TrackerIdle

\* synced_cues = parse_lrc_synced_lines(lrc_text)
ParseLrc ==
    /\ phase = "parse"
    /\ phase' = "build"
    /\ LET r == ParseLrcSyncedLines(lrc_text)
       IN  /\ raw_cues' = r.raw
           /\ sorted_cues' = r.sorted
           /\ synced_cues' = r.deduped
    /\ UNCHANGED <<lrc_text, lines, seconds_per_line, cues, lookup>>
    /\ UNCHANGED <<engineVars, selectVars, trackerVars>>

\* overlay_cues = _build_overlay_cues(lines, seconds_per_line, synced_cues)
BuildCues ==
    /\ phase = "build"
    /\ phase' = "built"
    /\ cues' = BuildOverlayCues(lines, seconds_per_line, synced_cues)
    /\ UNCHANGED <<lrc_text, raw_cues, sorted_cues, synced_cues, lines,
                   seconds_per_line, lookup>>
    /\ UNCHANGED <<engineVars, selectVars, trackerVars>>

NextOverlay ==
    \/ ParseLrc
    \/ BuildCues

SpecOverlay == InitOverlay /\ [][NextOverlay]_vars

----------------------------------------------------------------------------
(* _build_overlay_cues on its own: any list of lines, also the empty one, *)
(* with the synced cues of a text of at most one line                     *)

BuildTexts == {text \in LrcTexts : Len(text) <= 1}

InitBuild ==
    /\ phase = "build"
    /\ song_name = "bar"
    /\ lrc_text \in BuildTexts
    /\ raw_cues = ParseLrcSyncedLines(lrc_text).raw
    /\ sorted_cues = ParseLrcSyncedLines(lrc_text).sorted
    /\ synced_cues = ParseLrcSyncedLines(lrc_text).deduped
    /\ lines \in {PlainLines(n) : n \in 0..MaxPlain}
    /\ seconds_per_line \in LineMillis
    /\ cues = <<>>
    /\ lookup = NoLookup
    /\ EngineIdle
    /\ SelectIdle
    /\ TrackerIdle

SpecBuild == InitBuild /\ [][BuildCues]_vars

----------------------------------------------------------------------------
(* The lookup of timestamped lyrics: fetch_synced_lyrics_lrc and the step  *)
(* of the page that calls it, between the resolution and the cue builder.  *)

\* candidates = payload if isinstance(payload, list) else []
SearchLrclibCandidates(payload) == IF payload.list THEN payload.items ELSE <<>>

\* the loop over title and artist: the index of the item returned, 0 when the
\* loop ends without one, -1 when item.get raises on an item that is no object
RECURSIVE ScanLrclibBoth(_, _, _, _)
ScanLrclibBoth(items, t, a, i) ==
    IF i > Len(items) THEN 0
    ELSE IF ~items[i].obj THEN -1
    ELSE IF /\ Lower(StrField(items[i].trackName)) = t
            /\ Lower(StrField(items[i].artistName)) = a
         THEN i
    ELSE ScanLrclibBoth(items, t, a, i + 1)

\* _pick_best_lrclib_candidate on a non-empty list: the index of the item
\* returned, -1 when it raises AttributeError
PickBestLrclibCandidate(items, song, preferred_title, preferred_artist) ==
    LET both == IF preferred_title # "" /\ preferred_artist # ""
                THEN ScanLrclibBoth(items, Lower(Strip(preferred_title)),
                                    Lower(Strip(preferred_artist)), 1)
                ELSE 0
        title == IF preferred_title # ""
                 THEN ScanLrclib(items, Lower(Strip(preferred_title)), 1)
                 ELSE 0
        byName == ScanLrclib(items, Lower(Strip(song)), 1)
    IN  IF both # 0 THEN both
        ELSE IF title # 0 THEN title
        ELSE IF byName # 0 THEN byName
        ELSE 1

\* fetch_synced_lyrics_lrc on a decoded payload; synced = "" stands for None
FetchSyncedLyricsLrc(payload, song, preferred_title, preferred_artist) ==
    LET items == SearchLrclibCandidates(payload)
    IN  IF items = <<>> THEN [exc |-> NoError, synced |-> ""]
        ELSE LET idx == PickBestLrclibCandidate(items, song, preferred_title,
                                                preferred_artist)
             IN  IF idx = -1 THEN [exc |-> AttributeErrorExc, synced |-> ""]
                 ELSE [exc |-> NoError,
                       synced |-> StrField(items[idx].syncedLyrics)]

\* the title and the artist that the resolution hands to the lookup
Matches ==
    {[title |-> t, artist |-> "Abba"] : t \in {"Foo", "Bar"}}
        \cup {[title |-> "None", artist |-> "None"]}

\* what the lookup makes of the answers of LRCLIB: a payload, or the error
\* that _get_json_with_retries raises
SyncedOutcomes ==
    [q \in Queries, m \in Matches |->
        {FetchSyncedLyricsLrc(p, q, m.title, m.artist) : p \in LrclibPayloads}
            \cup {[exc |-> e, synced |-> ""] : e \in Failures(ResolverStatuses)}]

\* the lines of a string that the lookup returns
LrcOfString(s) ==
    CASE s = "[00:01.00]la" ->
            << <<Tag(<<0, 0>>, <<0, 1>>, <<0, 0>>), Txt("la")>> >>
      [] OTHER -> << <<Txt(s)>> >>

\* variant: only the first handler of the step, except RequestException
CaughtRequestOnly(e) == IsRequestException(e)

\* except requests.exceptions.RequestException / except Exception: every
\* error class of the model derives from Exception
CaughtBySyncedStep(e) == IsRequestException(e) \/ e.cls \notin {"none", "ok"}

InitSynced ==
    /\ phase = "lookup"
    /\ song_name \in Queries
    /\ attempt = 1
    /\ rstate = "idle"
    /\ last_error = NoError
    /\ hist = <<>>
    /\ sleeps = <<>>
    /\ reqs = 0
    /\ inflight = 0
    /\ nreq = [A |-> 0, B |-> 0]
    /\ primary_error = NoError
    /\ errA = NoError
    /\ errB = NoError
    /\ histA = <<>>
    /\ histB = <<>>
    /\ matched \in Matches
    /\ chosen = NoCand
    /\ result = NoResult
    /\ nsleep = 0
    /\ lrc_text = <<>>
    /\ raw_cues = <<>>
    /\ sorted_cues = <<>>
    /\ synced_cues = <<>>
    /\ lines \in {PlainLines(n) : n \in 1..MaxPlain}
    /\ seconds_per_line = FALLBACK_MILLIS_PER_LINE
    /\ cues = <<>>
    /\ lookup = NoLookup
    /\ SelectIdle
    /\ TrackerIdle

\* synced_cues = []; try: synced_lrc = fetch_synced_lyrics_lrc(...);
\* if synced_lrc: synced_cues = parse_lrc_synced_lines(synced_lrc)
\* except RequestException: synced_cues = []; except Exception: synced_cues = []
SyncedLookup(r) ==
    /\ phase = "lookup"
    /\ IF r.exc # NoError
       THEN /\ IF CaughtBySyncedStep(r.exc)
               THEN phase' = "build"
               ELSE phase' = "aborted"
            /\ lookup' = [kind |-> "raised", exc |-> r.exc]
            /\ synced_cues' = <<>>
            /\ UNCHANGED <<lrc_text, raw_cues, sorted_cues>>
       ELSE IF r.synced = ""
       THEN /\ phase' = "build"
            /\ lookup' = [kind |-> "absent", exc |-> NoError]
            /\ synced_cues' = <<>>
            /\ UNCHANGED <<lrc_text, raw_cues, sorted_cues>>
       ELSE LET parsed == ParseLrcSyncedLines(LrcOfString(r.synced))
            IN  /\ phase' = "build"
                /\ lookup' = [kind |-> "text", exc |-> NoError]
                /\ lrc_text' = LrcOfString(r.synced)
                /\ raw_cues' = parsed.raw
                /\ sorted_cues' = parsed.sorted
                /\ synced_cues' = parsed.deduped
    /\ UNCHANGED <<lines, seconds_per_line, cues>>
    /\ UNCHANGED <<engineVars, selectVars, trackerVars>>

NextSynced ==
    \/ \E r \in SyncedOutcomes[song_name, matched] : SyncedLookup(r)
    \/ BuildCues

SpecSynced == InitSynced /\ [][NextSynced]_vars

----------------------------------------------------------------------------
(* The overlay players: the script of build_overlay_html (a video element) *)
(* and of build_youtube_overlay_html (the YouTube player).  A cue index is *)
(* the index of the script, from 0, and -1 for none.                       *)

\* variant: no cue is returned when no window holds t
FindCueIndexNoFallback(cs, t) ==
    IF \E i \in 1..Len(cs) : t >= cs[i].start /\ t < cs[i].end
    THEN (CHOOSE i \in 1..Len(cs) :
              /\ t >= cs[i].start /\ t < cs[i].end
              /\ \A j \in 1..(i - 1) : ~(t >= cs[j].start /\ t < cs[j].end)) - 1
    ELSE -1

\* the loop of findCueIndex from position i on, and its last line
RECURSIVE FindCueFrom(_, _, _)
FindCueFrom(cs, t, i) ==
    IF i > Len(cs) THEN (IF Len(cs) # 0 THEN Len(cs) - 1 ELSE -1)
    ELSE IF t >= cs[i].start /\ t < cs[i].end THEN i - 1
    ELSE FindCueFrom(cs, t, i + 1)

FindCueIndex(cs, t) == FindCueFrom(cs, t, 1)

\* (cue.text || "").trim().split(/\s+/).filter(Boolean).length
WordCount(text) ==
    Cardinality({i \in 1..Len(text) :
                    /\ text[i].kind # "space"
                    /\ (i = 1 \/ text[i - 1].kind = "space")})

Min(a, b) == IF a <= b THEN a ELSE b

\* variant: the progress is not held at 0 before the start of the cue
ActiveWordUnclamped(cue, t) ==
    LET w == WordCount(cue.text)
        duration == Max(MIN_WINDOW_MILLIS, cue.end - cue.start)
        elapsed == t - cue.start
    IN  IF w = 0 THEN -1
        ELSE Min(w - 1,
                 IF elapsed * 1000 >= 999 * duration
                 THEN (999 * w) \div 1000
                 ELSE (elapsed * w) \div duration)

\* activeIdx of renderCue, -1 when the cue has no word: progress is
\* (t - cue.start) / duration held between 0 and 0.999, and activeIdx is
\* floor(progress * words.length), at most words.length - 1
ActiveWord(cue, t) ==
    LET w == WordCount(cue.text)
        duration == Max(MIN_WINDOW_MILLIS, cue.end - cue.start)
        elapsed == Max(0, t - cue.start)
    IN  IF w = 0 THEN -1
        ELSE Min(w - 1,
                 IF elapsed * 1000 >= 999 * duration
                 THEN (999 * w) \div 1000
                 ELSE (elapsed * w) \div duration)

\* what a tick at time t renders: idx >= 0 calls renderCue, else the line
\* element keeps what it shows
Rendering(t) ==
    LET idx == FindCueIndex(cues, t)
    IN  IF idx >= 0
        THEN [idx |-> idx, word |-> ActiveWord(cues[idx + 1], t)]
        ELSE shown

\* variant: the search resumes at the cue that is shown, as if time only
\* moved forward
TickForwardOnly(t) ==
    /\ now' = t
    /\ last_tick' = [t |-> now, idx |-> shown.idx, word |-> shown.word]
    /\ shown' = LET idx == FindCueFrom(cues, t, Max(1, shown.idx + 1))
                IN  IF idx >= 0
                    THEN [idx |-> idx, word |-> ActiveWord(cues[idx + 1], t)]
                    ELSE shown

\* the lookup and rendering of tick, of onPlayerReady and of the else branch
\* of onPlayerStateChange, the current time being t
Tick(t) ==
    /\ now' = t
    /\ last_tick' = [t |-> now, idx |-> shown.idx, word |-> shown.word]
    /\ shown' = Rendering(t)

\* rafId = window.requestAnimationFrame(tick)
RequestFrame(waiting) ==
    /\ next_id' = next_id + 1
    /\ rafId' = next_id + 1
    /\ pending' = waiting \cup {next_id + 1}

\* stopTicking
StopTicking ==
    /\ rafId' = 0
    /\ pending' = IF rafId # 0 THEN pending \ {rafId} ELSE pending
    /\ UNCHANGED next_id

\* lines of LRC text given to the players
OneTwoThree == <<Txt("one"), Space, Txt("two"), Space, Txt("three")>>

PlayerTexts ==
    {<<>>,
     << <<Tag(<<0, 0>>, <<0, 1>>, <<>>), Txt("hello")>>,
        <<Tag(<<0, 0>>, <<0, 1>>, <<5, 0>>), Txt("hello")>>,
        <<Tag(<<0, 0>>, <<0, 3>>, <<0, 0>>), Txt("world")>> >>,
     << <<Tag(<<0, 0>>, <<1, 0>>, <<>>)>> \o OneTwoThree,
        <<Tag(<<0, 0>>, <<1, 3>>, <<0, 5>>), Txt("la")>> >>,
     << <<Tag(<<0, 0>>, <<0, 1>>, <<>>), Txt("hello")>>,
        <<Tag(<<0, 0>>, <<0, 1>>, <<1>>), Tag(<<1>>, <<0, 2>>, <<1, 2, 3>>),
          Txt("hello")>> >>}

\* current times of the player, in milliseconds
Times ==
    {0, 1000, 1120, 1470, 2000, 2980, 10000, 11100, 12900, 70000}

\* event.data of onPlayerStateChange
PlayerStates == {"PLAYING", "PAUSED", "ENDED"}

\* the page is loaded: const cues holds the cues built from the lyrics
InitTracker ==
    /\ phase = "loading"
    /\ song_name = "bar"
    /\ player \in {"video", "youtube"}
    /\ lrc_text \in PlayerTexts
    /\ raw_cues = ParseLrcSyncedLines(lrc_text).raw
    /\ sorted_cues = ParseLrcSyncedLines(lrc_text).sorted
    /\ synced_cues = ParseLrcSyncedLines(lrc_text).deduped
    /\ lines \in IF lrc_text = <<>> THEN {PlainLines(0), PlainLines(2)}
                 ELSE {PlainLines(2)}
    /\ seconds_per_line = FALLBACK_MILLIS_PER_LINE
    /\ cues = BuildOverlayCues(lines, seconds_per_line, synced_cues)
    /\ lookup = NoLookup
    /\ now = 0
    /\ shown = NoRender
    /\ last_tick = NoTick
    /\ rafId = 0
    /\ pending = {}
    /\ next_id = 0
    /\ yt_events = <<>>
    /\ EngineIdle
    /\ SelectIdle

\* the last statement of the script of the video player: tick()
ScriptLoaded ==
    /\ phase = "loading"
    /\ player = "video"
    /\ phase' = "ready"
    /\ Tick(0)
    /\ UNCHANGED <<rafId, pending, next_id, yt_events, player>>
    /\ UNCHANGED <<engineVars, selectVars, overlayVars>>

\* timeupdate, seeked, loadedmetadata or play of the video element, whose
\* currentTime is t: tick
VideoEvent(t) ==
    /\ phase = "ready"
    /\ player = "video"
    /\ Tick(t)
    /\ UNCHANGED <<phase, rafId, pending, next_id, yt_events, player>>
    /\ UNCHANGED <<engineVars, selectVars, overlayVars>>

\* onPlayerReady
PlayerReady ==
    /\ phase = "loading"
    /\ player = "youtube"
    /\ phase' = "ready"
    /\ Tick(0)
    /\ UNCHANGED <<rafId, pending, next_id, yt_events, player>>
    /\ UNCHANGED <<engineVars, selectVars, overlayVars>>

\* variant: a PLAYING event starts ticking whether or not a tick is pending
PlayerStateChangeNoGuard(ev, t) ==
    /\ phase = "ready"
    /\ player = "youtube"
    /\ next_id < MaxFrames
    /\ yt_events' = IF yt_events = <<>> THEN <<ev>>
                    ELSE <<yt_events[Len(yt_events)], ev>>
    /\ IF ev = "PLAYING"
       THEN Tick(t) /\ RequestFrame(pending)
       ELSE StopTicking /\ Tick(t)
    /\ UNCHANGED <<phase, player>>
    /\ UNCHANGED <<engineVars, selectVars, overlayVars>>

\* onPlayerStateChange(event), event.data being ev and the current time t
PlayerStateChange(ev, t) ==
    /\ phase = "ready"
    /\ player = "youtube"
    /\ next_id < MaxFrames
    /\ yt_events' = IF yt_events = <<>> THEN <<ev>>
                    ELSE <<yt_events[Len(yt_events)], ev>>
    /\ IF ev = "PLAYING"
       THEN IF rafId = 0
            THEN Tick(t) /\ RequestFrame(pending)
            ELSE UNCHANGED <<now, shown, last_tick, rafId, pending, next_id>>
       ELSE StopTicking /\ Tick(t)
    /\ UNCHANGED <<phase, player>>
    /\ UNCHANGED <<engineVars, selectVars, overlayVars>>

\* the browser runs a pending animation-frame request: tick of the YouTube
\* player, the current time being t
AnimationFrame(t) ==
    /\ phase = "ready"
    /\ player = "youtube"
    /\ next_id < MaxFrames
    /\ \E id \in pending :
           /\ Tick(t)
           /\ RequestFrame(pending \ {id})
    /\ UNCHANGED <<phase, player, yt_events>>
    /\ UNCHANGED <<engineVars, selectVars, overlayVars>>

NextTracker ==
    \/ ScriptLoaded
    \/ PlayerReady
    \/ \E t \in Times : VideoEvent(t)
    \/ \E ev \in PlayerStates, t \in Times : PlayerStateChange(ev, t)
    \/ \E t \in Times : AnimationFrame(t)

SpecTracker == InitTracker /\ [][NextTracker]_vars

----------------------------------------------------------------------------
(* Properties of _get_json_with_retries, under SpecFetch *)

\* a failure the retry loop is documented to retry
TransientFailure(o) ==
    \/ o.cls \in {"Timeout", "ConnectionError"}
    \/ o.cls = "HTTPError" /\ o.status \in {408, 429, 500, 502, 503, 504}

Done == phase = "done"

\* position j of the history was followed by another attempt (or by the sleep
\* that precedes it)
FollowedByRetry(j) == j < Len(hist) \/ (j = Len(hist) /\ ~Done)

\* C5: when the first k attempts (k = 0, 1, 2) fail with transient failures
\* and attempt k+1 succeeds, the call has issued exactly k+1 requests, has
\* slept exactly k times, 1.2 s x j after failed attempt j, and returns.
SuccessAfterRetries ==
    \A k \in 0..2 :
        (/\ Len(hist) = k + 1
         /\ hist[k + 1] = OkOutcome
         /\ \A j \in 1..k : TransientFailure(hist[j]))
        => /\ Done
           /\ result.kind = "return"
           /\ reqs = k + 1
           /\ sleeps = SubSeq(<<12, 24>>, 1, k)

\* C5 witness: 503, 503, success
SuccessAfterTwo503 ==
    /\ hist = <<HttpExc(503), HttpExc(503), OkOutcome>>
    /\ result.kind = "return"
    /\ reqs = 3
    /\ Len(sleeps) = 2

\* C6: a call issues at most 3 requests; when all 3 attempts fail with
\* transient failures the error of the third attempt is raised, and there is
\* no sleep after the final attempt.
RetryCeiling ==
    /\ reqs <= 3
    /\ Len(hist) <= 3
    /\ (rstate = "sleeping" => Len(hist) < 3)
    /\ (Done /\ Len(hist) = 3 /\ (\A j \in 1..3 : TransientFailure(hist[j])))
        => /\ result = Raised(hist[3])
           /\ Len(sleeps) = 2
           /\ reqs = 3

\* C6 witness: three transient failures of different kinds, the last is raised
ThreeFailuresLastRaised ==
    /\ Done
    /\ hist = <<TimeoutExc, HttpExc(503), ConnectionExc>>
    /\ result = Raised(ConnectionExc)

\* C7: an HTTP error is followed by another attempt only if its status is in
\* {408, 429, 500, 502, 503, 504}; with any other status, or none, it is
\* raised on the attempt where it occurs, with no further request or sleep.
HttpRetryOnlyTransient ==
    \A j \in 1..Len(hist) :
        hist[j].cls = "HTTPError" =>
            /\ FollowedByRetry(j)
                 => hist[j].status \in {408, 429, 500, 502, 503, 504}
            /\ hist[j].status \notin {408, 429, 500, 502, 503, 504}
                 => /\ Done
                    /\ j = Len(hist)
                    /\ result = Raised(hist[j])
                    /\ reqs = j
                    /\ Len(sleeps) = j - 1
                    /\ inflight = 0

\* C7 witness: a 404 on the second attempt, and an HTTP error with no status
\* on the first, are raised at once
NonTransientHttpRaised ==
    /\ Done
    /\ \/ hist = <<HttpExc(503), HttpExc(404)>> /\ result = Raised(HttpExc(404))
       \/ hist = <<HttpExc(NoStatus)>> /\ result = Raised(HttpExc(NoStatus))

\* C8 as stated: no timeout and no generic (non-HTTP) network error is raised
\* before the third attempt has been made.
NetworkErrorsAlwaysRetried ==
    (Done /\ result.kind = "raise"
          /\ result.exc.cls \in {"Timeout", "ConnectionError", "RequestException"})
        => Len(hist) = 3

\* C8 amended: every Timeout and every ConnectionError on attempt 1 or 2 is
\* followed by another attempt; every other non-HTTP failure of an attempt
\* (another RequestException, a body that is no JSON) is raised at once.
TimeoutAndConnectionRetried ==
    \A j \in 1..Len(hist) :
        /\ (hist[j].cls \in {"Timeout", "ConnectionError"} /\ j < 3)
              => FollowedByRetry(j)
        /\ hist[j].cls \in {"RequestException", "JSONDecodeError"}
              => Done /\ j = Len(hist) /\ result = Raised(hist[j])

\* C8 witness: a timeout and a connection error are retried, and the
\* connection error of the third attempt is raised
ConnectionErrorRaisedAtThird ==
    /\ Done
    /\ hist = <<TimeoutExc, ConnectionExc, ConnectionExc>>
    /\ result = Raised(ConnectionExc)

----------------------------------------------------------------------------
(* Properties of find_and_fetch_lyrics, under Spec *)

FailedA == errA # NoError
FailedB == errB # NoError

\* the provider field holds a non-blank string
Populated(v) == v \notin {ABSENT, NULL, NUMBER} /\ Strip(v) # ""

\* C1: when both providers fail, the surfaced error is a Timeout if and only
\* if both failures were timeouts, a ValueError (NotFound) if and only if both
\* were ValueErrors, and a generic RequestException in every other case.
ErrorComposition ==
    (Done /\ FailedA /\ FailedB) =>
        /\ result.kind = "raise"
        /\ result.exc = TimeoutExc <=> (IsTimeout(errA) /\ IsTimeout(errB))
        /\ result.exc = ValueErrorExc <=> (IsValueError(errA) /\ IsValueError(errB))
        /\ result.exc \in {TimeoutExc, ValueErrorExc, OtherRequestExc}

\* the composition restricted to the failures the two except clauses catch
ErrorCompositionOfCaught ==
    (Done /\ FailedA /\ FailedB /\ Caught(errA) /\ Caught(errB)) =>
        /\ result.kind = "raise"
        /\ result.exc = TimeoutExc <=> (IsTimeout(errA) /\ IsTimeout(errB))
        /\ result.exc = ValueErrorExc <=> (IsValueError(errA) /\ IsValueError(errB))
        /\ result.exc \in {TimeoutExc, ValueErrorExc, OtherRequestExc}

\* C2: provider B is requested if and only if the sequence of provider A
\* failed, whatever the failure; when A succeeds its result is returned and
\* no request to B is issued.
FallbackIffPrimaryFailed ==
    /\ nreq.B > 0 => FailedA
    /\ (Done /\ FailedA) => nreq.B > 0
    /\ (Done /\ ~FailedA) => result.kind = "return" /\ nreq.B = 0

\* C3: an invocation ends by returning or by raising one of ValueError
\* (NotFound), Timeout (NetworkTimeout), RequestException (NetworkError).
OnlyTaxonomyErrors ==
    Done =>
        \/ result.kind = "return"
        \/ result.kind = "raise"
             /\ result.exc \in {ValueErrorExc, TimeoutExc, OtherRequestExc}

\* C4: on success the lyrics, the title and the artist are non-empty and each
\* comes from a populated provider field (not absent, blank or null).
ResolvedFieldsPopulated ==
    (Done /\ result.kind = "return") =>
        /\ result.lyrics # "" /\ result.title # "" /\ result.artist # ""
        /\ Populated(chosen.title)
        /\ Populated(chosen.name)
        /\ Populated(chosen.lyrics)

\* C9 as stated: at most one request is in flight, and provider B is
\* requested only after the failing call of provider A made all its attempts.
SequentialAfterFullBudget ==
    /\ inflight <= 1
    /\ nreq.B > 0 => Len(histA) = LYRICS_MAX_RETRIES

\* C9 amended: at most one request is in flight, and provider B is requested
\* only after the sequence of provider A ended in a failure; the failing call
\* made all 3 attempts when that failure is a transient one.
SequentialAfterPrimaryFailure ==
    /\ inflight \in {0, 1}
    /\ phase \in {"A_search", "A_fetch"} => nreq.B = 0
    /\ nreq.B > 0 =>
          /\ primary_error # NoError
          /\ primary_error = errA
          /\ Len(histA) >= 1
          /\ TransientFailure(primary_error) =>
                Len(histA) = 3 /\ histA[3] = primary_error

\* C9 witness: the request to provider B is in flight after provider A
\* failed on its first and only request
FallbackAfterOneRequest ==
    /\ phase = "B_search"
    /\ inflight = 1
    /\ nreq = [A |-> 1, B |-> 1]
    /\ Len(histA) = 1

\* C10 as stated: a surfaced Timeout means that every attempt of the failing
\* call on each provider timed out.
TimeoutMeansAllTimedOut ==
    (Done /\ result = Raised(TimeoutExc)) =>
        /\ \A j \in 1..Len(histA) : IsTimeout(histA[j])
        /\ \A j \in 1..Len(histB) : IsTimeout(histB[j])

\* C10 amended: a call that fails with a timeout made 3 attempts of which the
\* third timed out, the first two having ended in a timeout, a connection
\* error or a retryable HTTP status; and a surfaced Timeout means that the
\* failing call of each provider failed so.
TimeoutMeansLastTimedOut ==
    /\ \A c \in {<<errA, histA>>, <<errB, histB>>} :
          IsTimeout(c[1]) =>
              /\ Len(c[2]) = 3
              /\ IsTimeout(c[2][3])
              /\ \A j \in 1..2 : TransientFailure(c[2][j])
    /\ (Done /\ result = Raised(TimeoutExc)) =>
          IsTimeout(errA) /\ IsTimeout(errB)

\* C10 witness: both providers time out on their third attempt only
TimeoutAfterOtherFailures ==
    /\ Done
    /\ result = Raised(TimeoutExc)
    /\ histA = <<ConnectionExc, HttpExc(503), TimeoutExc>>
    /\ histB = <<HttpExc(503), ConnectionExc, TimeoutExc>>

----------------------------------------------------------------------------
(* Properties of the candidate selection, under SpecSelect *)

Selected == phase \in {"A_selected", "B_selected"}

\* the title field of a candidate of the running provider
TitleOf(c) == IF phase \in {"A_select", "A_selected"} THEN c.title ELSE c.trackName

\* candidate c is an object whose title is a string equal to the song name
\* once both are trimmed and lowercased
TitleEquals(c) ==
    /\ c.obj
    /\ TitleOf(c) \notin {ABSENT, NULL, NUMBER}
    /\ Lower(Strip(TitleOf(c))) = Lower(Strip(song_name))

\* the candidate that the selection rule designates
ExpectedPick ==
    IF \E i \in 1..Len(candidates) : TitleEquals(candidates[i])
    THEN CHOOSE i \in 1..Len(candidates) :
            /\ TitleEquals(candidates[i])
            /\ \A j \in 1..(i - 1) : ~TitleEquals(candidates[j])
    ELSE 1

\* C11: in both providers the first candidate whose trimmed, lowercased title
\* equals the trimmed, lowercased song name is selected, wherever it stands
\* in the list, and the first candidate is selected when no title is equal.
ExactTitleMatchSelected == Selected => picked = ExpectedPick

\* the rule of C11 on lists whose entries are all objects with a string title
ExactTitleMatchAmongTitled ==
    (Selected /\ \A i \in 1..Len(candidates) :
                    /\ candidates[i].obj
                    /\ TitleOf(candidates[i]) \notin {NULL, NUMBER})
        => picked = ExpectedPick

\* the chosen candidate passed the title and artist checks of provider B
LrclibChosenNamed ==
    /\ phase = "B_selected"
    /\ picked >= 1
    /\ StrField(candidates[picked].trackName) # ""
    /\ StrField(candidates[picked].artistName) # ""

\* C12: in provider B the lyrics returned for the chosen candidate are its
\* plain-text lyrics when that field is populated, else its synced lyrics
\* when that field is populated, and the sequence fails with "not found"
\* when neither field is populated (absent, blank or null).
PlainThenSyncedThenNotFound ==
    LrclibChosenNamed =>
        LET ch == candidates[picked]
        IN  IF Populated(ch.plainLyrics)
            THEN outcome.exc = NoError /\ outcome.lyrics = Strip(ch.plainLyrics)
            ELSE IF Populated(ch.syncedLyrics)
            THEN outcome.exc = NoError /\ outcome.lyrics = Strip(ch.syncedLyrics)
            ELSE outcome.exc = ValueErrorExc

\* the rule of C12 on candidates whose plain-text lyrics are not JSON null
PlainThenSyncedWithoutNull ==
    (LrclibChosenNamed /\ candidates[picked].plainLyrics # NULL
                      /\ candidates[picked].syncedLyrics # NULL)
        => PlainThenSyncedThenNotFound

----------------------------------------------------------------------------
(* Properties of the parser and of the cue builder, under SpecOverlay *)

Parsed == phase \in {"build", "built"}
Built == phase = "built"
SyncedMode == Built /\ synced_cues # <<>>
FixedMode == Built /\ synced_cues = <<>>

\* C13: no two cues of a built cue list have the same start and the same
\* text, whatever the LRC text was, also when the same (timestamp, text)
\* pair stands on two lines separated by another text at that timestamp.
NoDuplicateCues ==
    Built => \A i, j \in 1..Len(cues) :
                 (cues[i].start = cues[j].start /\ cues[i].text = cues[j].text)
                     => i = j

\* the property of C13 on the cues that are next to each other
NoAdjacentDuplicateCues ==
    Built => \A i \in 1..(Len(cues) - 1) :
                 cues[i].start # cues[i + 1].start \/ cues[i].text # cues[i + 1].text

\* C14: the parser returns its cues in non-decreasing order of time for
\* every input; the built cue list is in non-decreasing order of start, and
\* in increasing order of start when it is built at a fixed interval.
StartsNonDecreasing ==
    /\ Parsed => \A i \in 1..(Len(synced_cues) - 1) :
                     synced_cues[i].time <= synced_cues[i + 1].time
    /\ Built => \A i \in 1..(Len(cues) - 1) : cues[i].start <= cues[i + 1].start
    /\ FixedMode => \A i \in 1..(Len(cues) - 1) : cues[i].start < cues[i + 1].start

\* witness of C14: timestamps that were out of order in the text were built
\* into cues
OutOfOrderTextBuilt ==
    /\ SyncedMode
    /\ \E i \in 1..(Len(raw_cues) - 1) : raw_cues[i].time > raw_cues[i + 1].time
    /\ Len(cues) >= 3

\* positions of a line that hold something else than whitespace
NonSpace(l) == {j \in 1..Len(l) : l[j].kind # "space"}

SetMin(S) == CHOOSE x \in S : \A y \in S : x <= y
SetMax(S) == CHOOSE x \in S : \A y \in S : x >= y

\* positions of the timestamp tags of a line
TagIdx(l) == {j \in 1..Len(l) : TsPattern(l[j])}

\* the position after the run of tags that the trimmed line starts with
AfterLeadingTags(l) ==
    LET a == SetMin(NonSpace(l))
    IN  CHOOSE e \in a..(Len(l) + 1) :
            /\ \A j \in a..(e - 1) : j \in TagIdx(l)
            /\ e \notin TagIdx(l)

\* positions of the text that follows the leading tags
TextSpan(l) == {j \in NonSpace(l) : j >= AfterLeadingTags(l)}

\* the line is one or more leading tags followed by text that is not blank
TaggedLine(l) ==
    /\ NonSpace(l) # {}
    /\ AfterLeadingTags(l) > SetMin(NonSpace(l))
    /\ TextSpan(l) # {}

\* the trimmed text that follows the leading tags
LineText(l) == SubSeq(l, SetMin(TextSpan(l)), SetMax(TextSpan(l)))

\* number of cues that line l is to yield
LineYield(l) == IF TaggedLine(l) THEN Cardinality(TagIdx(l)) ELSE 0

\* number of cues that the first n lines of the text are to yield
RECURSIVE YieldUpTo(_)
YieldUpTo(n) == IF n = 0 THEN 0 ELSE YieldUpTo(n - 1) + LineYield(lrc_text[n])

\* the j-th timestamp tag of a line
NthTag(l, j) ==
    l[CHOOSE i \in TagIdx(l) : Cardinality({x \in TagIdx(l) : x <= i}) = j]

\* C15: the parser returns for every text; a line yields cues only if it is
\* one or more leading timestamp tags followed by text that is not blank,
\* and then it yields exactly one cue for each timestamp tag on the line,
\* each with that text; every other line yields nothing.
CuesOnlyFromTaggedLines ==
    Parsed =>
        /\ Len(raw_cues) = YieldUpTo(Len(lrc_text))
        /\ \A n \in 1..Len(lrc_text) :
               \A j \in 1..LineYield(lrc_text[n]) :
                   raw_cues[YieldUpTo(n - 1) + j].text = LineText(lrc_text[n])

\* witness of C15: a text of three lines, one of which has two tags, gave
\* exactly two cues
TwoTagLineAmongBarren ==
    /\ Parsed
    /\ Len(lrc_text) = 3
    /\ \E n \in 1..3 : LineYield(lrc_text[n]) = 2
    /\ \E n \in 1..3 : TagIdx(lrc_text[n]) # {} /\ LineYield(lrc_text[n]) = 0
    /\ Len(raw_cues) = 2

\* the milliseconds that a fraction stands for: its digits padded on the
\* right to three
FractionMillis(frac) ==
    CASE Len(frac) = 0 -> 0
      [] Len(frac) = 1 -> 100 * frac[1]
      [] Len(frac) = 2 -> 100 * frac[1] + 10 * frac[2]
      [] OTHER -> 100 * frac[1] + 10 * frac[2] + frac[3]

\* C16: the tag [m:s.f] gives the time 60000*m + 1000*s + F milliseconds,
\* F being the fraction padded or cut to three digits and 0 when there is
\* none: .5 is 500, .12 is 120, .123 is 123, and "[00:01.50]hello",
\* "[00:03.00]world" parse to (1.5, hello), (3.0, world).
TagTimeInMillis ==
    /\ Millis(<<5>>) = 500 /\ Millis(<<1, 2>>) = 120
    /\ Millis(<<1, 2, 3>>) = 123 /\ Millis(<<>>) = 0
    /\ Parsed =>
        /\ Len(raw_cues) = YieldUpTo(Len(lrc_text))
        /\ \A n \in 1..Len(lrc_text) :
               \A j \in 1..LineYield(lrc_text[n]) :
                   LET tag == NthTag(lrc_text[n], j)
                   IN  raw_cues[YieldUpTo(n - 1) + j].time =
                           60000 * IntOf(tag.mm) + 1000 * IntOf(tag.ss)
                               + FractionMillis(tag.frac)
    /\ (Parsed /\ lrc_text =
            << <<Tag(<<0, 0>>, <<0, 1>>, <<5, 0>>), Txt("hello")>>,
               <<Tag(<<0, 0>>, <<0, 3>>, <<0, 0>>), Txt("world")>> >>)
        => synced_cues = <<[time |-> 1500, text |-> <<Txt("hello")>>],
                           [time |-> 3000, text |-> <<Txt("world")>>]>>

\* witness of C16: the two lines of the example were parsed
HelloWorldParsed ==
    /\ Parsed
    /\ lrc_text = << <<Tag(<<0, 0>>, <<0, 1>>, <<5, 0>>), Txt("hello")>>,
                     <<Tag(<<0, 0>>, <<0, 3>>, <<0, 0>>), Txt("world")>> >>
    /\ Len(synced_cues) = 2
    /\ synced_cues[1].time = 1500
    /\ synced_cues[2].time = 3000

\* positions of the sorted cues that differ from the cue before them
RunStarts == {i \in 1..Len(sorted_cues) : i = 1 \/ sorted_cues[i] # sorted_cues[i - 1]}

\* C17: of the sorted cues, each run of equal consecutive entries is reduced
\* to its first entry: no two adjacent entries of the result are equal, and
\* no entry that differs from its predecessor in time or in text is removed.
ConsecutiveDuplicatesCollapsed ==
    Parsed =>
        /\ \A i \in 1..(Len(synced_cues) - 1) : synced_cues[i] # synced_cues[i + 1]
        /\ Len(synced_cues) = Cardinality(RunStarts)
        /\ \A k \in 1..Len(synced_cues) :
               synced_cues[k] =
                   sorted_cues[CHOOSE i \in RunStarts :
                                   Cardinality({x \in RunStarts : x <= i}) = k]

\* witness of C17: a repeated cue was dropped next to a cue of the same time
\* and another text, which was kept
RepeatDroppedNeighbourKept ==
    /\ Parsed
    /\ Len(synced_cues) < Len(sorted_cues)
    /\ \E i \in 1..(Len(synced_cues) - 1) :
           /\ synced_cues[i].time = synced_cues[i + 1].time
           /\ synced_cues[i].text # synced_cues[i + 1].text

\* C18: in synced mode every cue, the last one included, ends at least
\* 150 ms after its start, and a cue whose successor starts at least 200 ms
\* after it ends at least 50 ms before the start of the successor.
SyncedWindowBounds ==
    SyncedMode =>
        /\ Len(cues) = Len(synced_cues)
        /\ \A i \in 1..Len(cues) : cues[i].end >= cues[i].start + 150
        /\ cues[Len(cues)].end =
               cues[Len(cues)].start + Max(2000, seconds_per_line)
        /\ \A i \in 1..(Len(cues) - 1) :
               cues[i + 1].start - cues[i].start >= 200
                   => cues[i].end <= cues[i + 1].start - 50

\* witness of C18: a cue followed 100 ms later by the next one, itself
\* followed after more than 200 ms, and a line interval under 2 s
CloseAndDistantCues ==
    /\ SyncedMode
    /\ seconds_per_line < 2000
    /\ \E i \in 1..(Len(cues) - 2) :
           /\ cues[i + 1].start - cues[i].start = 100
           /\ cues[i + 2].start - cues[i + 1].start >= 200

\* C19 as stated: in synced mode every cue lasts at least 150 ms and every
\* cue but the last ends at least 50 ms before the start of the next cue, so
\* that the windows of consecutive cues never overlap.
ConsecutiveWindowsDisjoint ==
    SyncedMode =>
        /\ \A i \in 1..Len(cues) : cues[i].end - cues[i].start >= 150
        /\ \A i \in 1..(Len(cues) - 1) : cues[i].end <= cues[i + 1].start - 50

\* C19: in synced mode every cue lasts at least 150 ms; a cue whose
\* successor starts d ms after it ends 50 ms before the successor when
\* d >= 200, and lasts exactly 150 ms when d < 200, so that it ends less than
\* 50 ms before the successor and runs into it when d < 150.
MinWindowBeforeGap ==
    SyncedMode =>
        \A i \in 1..(Len(cues) - 1) :
            LET d == cues[i + 1].start - cues[i].start
            IN  /\ cues[i].end - cues[i].start >= 150
                /\ d >= 200 => cues[i + 1].start - cues[i].end = 50
                /\ d < 200 => cues[i].end - cues[i].start = 150
                /\ d < 150 => cues[i].end > cues[i + 1].start

\* witness of C19: a cue runs into its successor
WindowsOverlap ==
    /\ SyncedMode
    /\ \E i \in 1..(Len(cues) - 1) : cues[i].end > cues[i + 1].start

\* C20: in fixed-interval mode, n lines and an interval s > 0 give n cues,
\* cue i (from 0) from i*s to (i+1)*s with the text of line i: the first cue
\* starts at 0, each cue ends where the next starts and the last ends at
\* n*s, so the cues tile [0, n*s) without gap or overlap.
FixedIntervalTiling ==
    FixedMode =>
        /\ Len(cues) = Len(lines)
        /\ cues[1].start = 0
        /\ cues[Len(cues)].end = Len(lines) * seconds_per_line
        /\ \A i \in 1..Len(cues) :
               /\ cues[i].start = (i - 1) * seconds_per_line
               /\ cues[i].end - cues[i].start = seconds_per_line
               /\ cues[i].text = lines[i]
        /\ \A i \in 1..(Len(cues) - 1) : cues[i].end = cues[i + 1].start

\* witness of C20: three lines were laid out at the default interval
ThreeLinesTiled ==
    /\ FixedMode
    /\ Len(cues) = 3
    /\ seconds_per_line = FALLBACK_MILLIS_PER_LINE
    /\ cues[3].end = 8400

----------------------------------------------------------------------------
(* Properties of the cue builder on its own, under SpecBuild *)

\* C21: the two modes of _build_overlay_cues exclude each other: with synced
\* cues the output has one cue for each synced cue, in their order and with
\* their text, and the lines are not used; without synced cues it has one cue
\* for each line, in their order; with neither it is the empty list.
ModesExclusive ==
    Built =>
        /\ synced_cues # <<>> =>
               /\ Len(cues) = Len(synced_cues)
               /\ \A i \in 1..Len(cues) :
                      /\ cues[i].start = synced_cues[i].time
                      /\ cues[i].text = synced_cues[i].text
        /\ synced_cues = <<>> =>
               /\ Len(cues) = Len(lines)
               /\ \A i \in 1..Len(cues) : cues[i].text = lines[i]
        /\ (synced_cues = <<>> /\ lines = <<>>) => cues = <<>>

\* witness of C21: two synced cues were built while three lines were given
SyncedBuiltDespiteLines ==
    /\ Built
    /\ Len(synced_cues) = 2
    /\ Len(lines) = 3
    /\ Len(cues) = 2

----------------------------------------------------------------------------
(* Properties of the overlay players, under SpecTracker *)

\* a tick has run
Ticked == phase = "ready"

\* the window of the cue at position i holds time t
Holds(i, t) == cues[i].start <= t /\ t < cues[i].end

\* the active cue at time t: the lowest index whose window holds t, else the
\* last index, else none
ActiveCue(t) ==
    IF \E i \in 1..Len(cues) : Holds(i, t)
    THEN SetMin({i \in 1..Len(cues) : Holds(i, t)}) - 1
    ELSE Len(cues) - 1

\* C22: findCueIndex returns, for any time t, the lowest-index cue with
\* start <= t < end; when no cue holds t and the list is not empty it returns
\* the last cue, for t past the last window and for t before the first
\* start alike; it returns none only when the list is empty.
ActiveCueLookup ==
    /\ \A t \in Times : FindCueIndex(cues, t) = ActiveCue(t)
    /\ Ticked =>
           /\ cues # <<>> => shown.idx = ActiveCue(now)
           /\ shown.idx = -1 <=> cues = <<>>

\* witness of C22: a time before the first start shows the last cue
BeforeFirstShowsLast ==
    /\ Ticked
    /\ Len(cues) >= 2
    /\ now < cues[1].start
    /\ shown.idx = Len(cues) - 1

\* the progress through cue c at time t, as the fraction num / den:
\* (t - start) / max(0.15, end - start) held between 0 and 0.999
Progress(c, t) ==
    LET d == IF c.end - c.start >= 150 THEN c.end - c.start ELSE 150
        e == t - c.start
    IN  IF e <= 0 THEN [num |-> 0, den |-> 1]
        ELSE IF 1000 * e >= 999 * d THEN [num |-> 999, den |-> 1000]
        ELSE [num |-> e, den |-> d]

\* k is floor(progress * w), at most w - 1
IsWordIndex(k, c, t, w) ==
    LET p == Progress(c, t)
    IN  \E f \in 0..w :
            /\ f * p.den <= p.num * w
            /\ p.num * w < (f + 1) * p.den
            /\ k = (IF f <= w - 1 THEN f ELSE w - 1)

\* C23: for a cue of w >= 1 words and any time t the active word index is
\* floor(clamp((t - start) / max(0.15, end - start), 0, 0.999) * w), at most
\* w - 1: it lies in 0..w-1 and does not decrease as t increases; for
\* "one two three" with window [10.0, 13.0) it is 0 at 10.0, 1 at 11.1 and
\* 2 at 12.9.
ActiveWordIndex ==
    /\ \A i \in 1..Len(cues) :
           LET c == cues[i]
               w == WordCount(c.text)
           IN  w >= 1 =>
                   /\ \A t \in Times :
                          /\ ActiveWord(c, t) \in 0..(w - 1)
                          /\ IsWordIndex(ActiveWord(c, t), c, t, w)
                   /\ \A t1, t2 \in Times :
                          t1 <= t2 => ActiveWord(c, t1) <= ActiveWord(c, t2)
                   /\ (c.text = OneTwoThree /\ c.start = 10000 /\ c.end = 13000)
                          => /\ ActiveWord(c, 10000) = 0
                             /\ ActiveWord(c, 11100) = 1
                             /\ ActiveWord(c, 12900) = 2
    /\ (Ticked /\ shown.idx >= 0) =>
           IsWordIndex(shown.word, cues[shown.idx + 1], now,
                       WordCount(cues[shown.idx + 1].text))

\* witness of C23: at 11.1 s the second word of "one two three", shown from
\* 10.0 to 13.0, is the active one
SecondWordOfThree ==
    /\ Ticked
    /\ now = 11100
    /\ shown.idx >= 0
    /\ cues[shown.idx + 1].text = OneTwoThree
    /\ cues[shown.idx + 1].start = 10000
    /\ cues[shown.idx + 1].end = 13000
    /\ shown.word = 1

\* what a lookup at time t gives to a player that has rendered nothing
FreshLookup(t) ==
    IF cues = <<>> THEN NoRender
    ELSE [idx |-> FindCueIndex(cues, t),
          word |-> ActiveWord(cues[FindCueIndex(cues, t) + 1], t)]

\* C24: the tracker keeps no history: whatever the sequence of time updates
\* (timeupdate, seeked, loadedmetadata, play, animation frames), backward
\* seeks included, the cue and the word rendered by each tick are those of a
\* fresh lookup at the time of that tick, and no tick changes the cue list.
TrackerHistoryIndependent ==
    /\ [](Ticked => shown = FreshLookup(now))
    /\ [][cues' = cues]_vars

\* witness of C24: a tick at an earlier time than the tick before it rendered
\* an earlier cue
BackwardSeekRendered ==
    /\ Ticked
    /\ last_tick.t > now
    /\ shown.idx >= 0
    /\ last_tick.idx > shown.idx

----------------------------------------------------------------------------
(* Properties of the lookup of timestamped lyrics, under SpecSynced *)

\* the lookup raised, returned None, or returned text without a cue
NoSyncedData ==
    \/ lookup.kind \in {"raised", "absent"}
    \/ lookup.kind = "text" /\ raw_cues = <<>>

\* C25: the lookup of timestamped lyrics never ends the run: when it raises
\* (a network error or any other exception), returns no text, or returns text
\* from which no cue parses, the synced-cue list is empty and the builder lays
\* the resolved lines out at the fixed interval; no state is an abort.
SyncedLookupNeverFatal ==
    /\ phase # "aborted"
    /\ (Parsed /\ NoSyncedData) => synced_cues = <<>>
    /\ (Built /\ NoSyncedData) =>
           /\ Len(cues) = Len(lines)
           /\ \A i \in 1..Len(cues) :
                  /\ cues[i].start = (i - 1) * FALLBACK_MILLIS_PER_LINE
                  /\ cues[i].end = i * FALLBACK_MILLIS_PER_LINE
                  /\ cues[i].text = lines[i]

\* witness of C25: the lookup raised an AttributeError on an entry that is no
\* object, and the three lines were laid out at the fixed interval
LookupRaisedFixedBuilt ==
    /\ Built
    /\ lookup = [kind |-> "raised", exc |-> AttributeErrorExc]
    /\ Len(lines) = 3
    /\ Len(cues) = 3
    /\ cues[3].start = 5600

\* the lookup returned the text of a null syncedLyrics, which holds no cue
NullSyncedTextBuilt ==
    /\ Built
    /\ lookup.kind = "text"
    /\ lrc_text = << <<Txt("None")>> >>
    /\ synced_cues = <<>>
    /\ cues # <<>>

\* the lookup returned text with a cue, and the synced cue was built
SyncedTextBuilt ==
    /\ Built
    /\ lookup.kind = "text"
    /\ synced_cues # <<>>
    /\ Len(cues) = 1
    /\ cues[1].start = 1000

----------------------------------------------------------------------------
(* Termination and request budget of find_and_fetch_lyrics, under SpecLive *)

\* the requests and the sleeps of the invocation so far: at most three
\* requests and two sleeps in the running call, at most six requests to
\* provider A (search and lyrics), three to provider B, six sleeps in all
WithinBudget ==
    /\ reqs <= 3
    /\ Len(sleeps) <= 2
    /\ nreq.A <= 6
    /\ nreq.B <= 3
    /\ nreq.A + nreq.B <= 9
    /\ nsleep <= 6
    /\ phase = "A_search" => nreq.A <= 3 /\ nreq.B = 0
    /\ phase = "A_fetch" => nreq.B = 0

\* C26: every invocation of find_and_fetch_lyrics ends, whatever the two
\* providers answer, and makes at most 9 requests (3 for the search of
\* provider A, 3 for its lyrics, 3 for the search of provider B) and at most
\* 6 backoff sleeps.
ResolverTerminates == []WithinBudget /\ <>Done

\* witness of C26: an invocation that ended after 9 requests and 6 sleeps
NineRequestsSixSleeps ==
    /\ Done
    /\ nreq.A = 6
    /\ nreq.B = 3
    /\ nsleep = 6

----------------------------------------------------------------------------
(* Properties of the frame loop of the YouTube player, under SpecTracker *)

\* the last state-change event of the YouTube player
LastEvent == yt_events[Len(yt_events)]

\* C27: in the YouTube player, whatever the sequence of state-change events
\* and animation-frame callbacks, at most one animation-frame tick is pending
\* (a repeated PLAYING event starts no second loop), and from a change to a
\* state other than PLAYING until the next PLAYING event none is pending.
SingleFrameLoop ==
    player = "youtube" =>
        /\ Cardinality(pending) <= 1
        /\ pending \subseteq {rafId}
        /\ (yt_events # <<>> /\ LastEvent # "PLAYING") => pending = {}

\* witness of C27: a second PLAYING event in a row, after a frame has run,
\* left one tick pending
PlayingTwiceOnePending ==
    /\ player = "youtube"
    /\ yt_events = <<"PLAYING", "PLAYING">>
    /\ next_id >= 2
    /\ Cardinality(pending) = 1

\* a pause stopped the loop that a PLAYING event had started
PausedNonePending ==
    /\ player = "youtube"
    /\ yt_events = <<"PLAYING", "PAUSED">>
    /\ next_id >= 1
    /\ pending = {}

\* the cues are synced cues whose starts are at least 0.20 s apart
SpacedSyncedCues ==
    /\ synced_cues # <<>>
    /\ \A i \in 1..(Len(cues) - 1) : cues[i + 1].start - cues[i].start >= 200

\* the time of the last tick lies between the end of the cue at position i
\* and the start of the next cue
InGapAfter(i) == cues[i].end <= now /\ now < cues[i + 1].start

\* C28 as stated: with synced cues whose starts are at least 0.20 s apart, at
\* every time in the gap between cue i and cue i+1 the tracker selects the
\* last cue of the list, which is neither cue i nor cue i+1.
GapSelectsThirdCue ==
    (Ticked /\ SpacedSyncedCues) =>
        \A i \in 1..(Len(cues) - 1) :
            InGapAfter(i) =>
                /\ shown.idx = Len(cues) - 1
                /\ shown.idx # i - 1
                /\ shown.idx # i

\* C28: with synced cues whose starts are at least 0.20 s apart, at every
\* time in the gap between cue i and cue i+1 the tracker selects the last cue
\* of the list: that is cue i+1 itself in the gap before the last cue, and a
\* cue after cue i+1 in every other gap, where the selected index then goes
\* down when cue i+1 starts.
GapSelectsLastCue ==
    (Ticked /\ SpacedSyncedCues) =>
        \A i \in 1..(Len(cues) - 1) :
            InGapAfter(i) =>
                /\ shown.idx = Len(cues) - 1
                /\ shown.idx # i - 1
                /\ (shown.idx = i) <=> (i + 1 = Len(cues))
                /\ (i + 1 < Len(cues)) =>
                       FindCueIndex(cues, cues[i + 1].start) < shown.idx

\* witness of C28: time went on from the gap after the first of three cues,
\* where the last cue was shown, into the second cue
IndexWentDown ==
    /\ Ticked
    /\ SpacedSyncedCues
    /\ Len(cues) = 3
    /\ cues[1].end <= last_tick.t /\ last_tick.t < cues[2].start
    /\ last_tick.idx = 2
    /\ last_tick.t < now
    /\ shown.idx = 1

====
